---- MODULE Spec2Model ----
(***************************************************************************)
(* Model of templates/project_template.py: the Clean DDD project           *)
(* generator.  A text is a sequence of tokens: "{" and "}" are the brace   *)
(* characters, " " and "\n" are whitespace characters, "/" is the path     *)
(* separator and every other token is a run of ordinary characters.  A     *)
(* path is a sequence of names (texts) relative to the working directory,  *)
(* and the filesystem maps the existing paths to nodes.                    *)
(***************************************************************************)
EXTENDS Naturals, Sequences, FiniteSets, TLC

VARIABLES
    argv,              \* sys.argv: the program name followed by the arguments
    fs,                \* the filesystem: existing path -> node
    fs0,               \* the filesystem when the run started
    pc,                \* the position of the run in the code
    status,            \* the process exit status, meaningful once pc = "exit"
    via,               \* the branch through which the process exited
    in_try,            \* whether control is inside main's try block
    project_name,      \* main's / generate_template_files' project_name
    entity_name,       \* main's / generate_template_files' entity_name
    entity_name_lower, \* generate_template_files' local entity_name_lower
    project_path,      \* main's project_path, the callee's base_path / project_path
    structure,         \* the structure passed to create_directory_structure
    stack,             \* create_directory_structure's recursion: frames of
                       \* [base, items], the innermost call first
    items,             \* the entries a template loop has still to visit
    ret,               \* where control continues when the current call returns
    pre,               \* the filesystem when the current call was made
    writes,            \* the paths write_text was invoked on, in order
    injected           \* whether the environment made some I/O call fail

vars == <<argv, fs, fs0, pc, status, via, in_try, project_name, entity_name,
          entity_name_lower, project_path, structure, stack, items, ret, pre,
          writes, injected>>

----------------------------------------------------------------------------
(* Texts *)

Whitespace == {" ", "\n", "\t"}

\* str.strip(): the text without its leading and trailing whitespace
RECURSIVE LStrip(_)
LStrip(t) ==
    IF t # <<>> /\ Head(t) \in Whitespace THEN LStrip(Tail(t)) ELSE t

RECURSIVE RStrip(_)
RStrip(t) ==
    IF t # <<>> /\ t[Len(t)] \in Whitespace
    THEN RStrip(SubSeq(t, 1, Len(t) - 1))
    ELSE t

\* strip left out of the test
strip_identity(t) == t

strip(t) == RStrip(LStrip(t))

\* str.lower() on one token
LowerToken(c) ==
    CASE c = "Order" -> "order"
      [] c = "T" -> "t"
      [] OTHER -> c

lower(t) == [i \in DOMAIN t |-> LowerToken(t[i])]

\* A keyword-argument table of str.format: the supplied field names
FieldNames(kw) == {kw[i][1] : i \in DOMAIN kw}

FieldValue(kw, name) ==
    LET i == CHOOSE j \in DOMAIN kw : kw[j][1] = name IN kw[i][2]

\* str.format that leaves the escaped braces doubled
RECURSIVE format_keep_escapes(_, _)
format_keep_escapes(t, kw) ==
    IF t = <<>> THEN [ok |-> TRUE, out |-> <<>>]
    ELSE IF Head(t) = "{" /\ Len(t) >= 3 /\ t[3] = "}" /\ t[2] \in FieldNames(kw)
    THEN LET r == format_keep_escapes(SubSeq(t, 4, Len(t)), kw)
         IN  [ok |-> r.ok, out |-> FieldValue(kw, t[2]) \o r.out]
    ELSE LET r == format_keep_escapes(Tail(t), kw)
         IN  [ok |-> r.ok, out |-> <<Head(t)>> \o r.out]

\* str.format(**kw): "{{" and "}}" give one literal brace, "{name}" gives the
\* value supplied for name (KeyError when none is), a brace that opens no
\* field or closes none is a ValueError; a substituted value is not scanned
\* again.  The result is [ok, out].
RECURSIVE format(_, _)
format(t, kw) ==
    IF t = <<>> THEN [ok |-> TRUE, out |-> <<>>]
    ELSE IF Head(t) = "{" THEN
        IF Len(t) >= 2 /\ t[2] = "{" THEN
            LET r == format(SubSeq(t, 3, Len(t)), kw)
            IN  [ok |-> r.ok, out |-> <<"{">> \o r.out]
        ELSE IF Len(t) >= 3 /\ t[3] = "}" /\ t[2] \in FieldNames(kw) THEN
            LET r == format(SubSeq(t, 4, Len(t)), kw)
            IN  [ok |-> r.ok, out |-> FieldValue(kw, t[2]) \o r.out]
        ELSE [ok |-> FALSE, out |-> <<>>]
    ELSE IF Head(t) = "}" THEN
        IF Len(t) >= 2 /\ t[2] = "}" THEN
            LET r == format(SubSeq(t, 3, Len(t)), kw)
            IN  [ok |-> r.ok, out |-> <<"}">> \o r.out]
        ELSE [ok |-> FALSE, out |-> <<>>]
    ELSE
        LET r == format(Tail(t), kw)
        IN  [ok |-> r.ok, out |-> <<Head(t)>> \o r.out]

----------------------------------------------------------------------------
(* The catalogs *)

Dir(name, children) ==
    [name |-> <<name>>, isdir |-> TRUE, content |-> <<>>, children |-> children]

File(name, content) ==
    [name |-> <<name>>, isdir |-> FALSE, content |-> content, children |-> <<>>]

Package(name) == Dir(name, <<File("__init__.py", <<>>)>>)

\* PROJECT_STRUCTURE, in the insertion order of the dict literal
PROJECT_STRUCTURE ==
    << Dir("src", <<
           File("__init__.py", <<>>),
           Dir("domain", <<
               File("__init__.py", <<>>),
               Package("entities"), Package("value_objects"),
               Package("aggregates"), Package("events"),
               Package("repositories"), Package("services") >>),
           Dir("application", <<
               File("__init__.py", <<>>),
               Package("commands"), Package("queries"), Package("handlers"),
               Package("services"), Package("dtos") >>),
           Dir("infrastructure", <<
               File("__init__.py", <<>>),
               Package("persistence"), Package("repositories"),
               Package("messaging"), Package("external_services") >>),
           Dir("presentation", <<
               File("__init__.py", <<>>),
               Package("api"), Package("cli"), Package("web") >>) >>),
       Dir("tests", <<
           File("__init__.py", <<>>),
           Dir("unit", <<
               File("__init__.py", <<>>),
               Package("domain"), Package("application") >>),
           Package("integration"), Package("e2e") >>),
       Dir("docs", <<
           File("README.md", <<"#", " ", "project docs", "\n", "\n",
                               "add the project's documents here.", "\n">>) >>)
    >>

\* TEMPLATES, in the insertion order of the dict literal: <<name, template>>
TEMPLATES ==
    << << <<"entity_template.py">>,
          << "\"\"\"entity template\"\"\"", "\n",
             "from dataclasses import dataclass", "\n", "\n",
             "@dataclass", "\n",
             "class", " ", "{", "entity_name", "}", ":", "\n",
             "\"\"\"", "{", "entity_name", "}", " ", "aggregate root", "\"\"\"", "\n",
             "id: str", "\n" >> >>,
       << <<"repository_interface_template.py">>,
          << "\"\"\"repository interface template\"\"\"", "\n",
             "from .", "{", "entity_name_lower", "}", " ", "import", " ",
             "{", "entity_name", "}", "\n",
             "class", " ", "{", "entity_name", "}", "Repository", "(ABC):", "\n",
             "def save(self, ", "{", "entity_name_lower", "}", ":", " ",
             "{", "entity_name", "}", ") -> None:", "\n",
             "def find_by_id(self, ", "{", "entity_name_lower", "}",
             "_id: str) -> Optional[", "{", "entity_name", "}", "]:", "\n",
             "def delete(self, ", "{", "entity_name_lower", "}",
             "_id: str) -> bool:", "\n" >> >>,
       << <<"pyproject.toml">>,
          << "[project]", "\n",
             "name = \"", "{", "project_name", "}", "\"", "\n",
             "version = \"0.1.0\"", "\n",
             "authors = [", "\n",
             "{", "{", "name = \"Your Name\", email = \"your.email@example.com\"",
             "}", "}", ",", "\n",
             "]", "\n" >> >>,
       << <<"README.md">>,
          << "#", " ", "{", "project_name", "}", "\n", "\n",
             "a Python project on the Clean DDD architecture", "\n" >> >>
    >>

TemplateNames == {TEMPLATES[i][1] : i \in DOMAIN TEMPLATES}

\* TEMPLATES[name]
Template(name) ==
    LET i == CHOOSE j \in DOMAIN TEMPLATES : TEMPLATES[j][1] = name
    IN  TEMPLATES[i][2]

----------------------------------------------------------------------------
(* The filesystem: pathlib and shutil *)

DirNode == [kind |-> "dir", content |-> <<>>]
FileNode(c) == [kind |-> "file", content |-> c]

\* Path(text): the names between the separators
RECURSIVE Path(_)
Path(t) ==
    IF t = <<>> THEN <<>>
    ELSE LET rest == Path(Tail(t))
         IN  IF Head(t) = "/" THEN <<<<>>>> \o rest
             ELSE IF rest = <<>> THEN <<<<Head(t)>>>>
             ELSE <<<<Head(t)>> \o Head(rest)>> \o Tail(rest)

parent(p) == SubSeq(p, 1, Len(p) - 1)

IsPrefix(p, q) == Len(p) <= Len(q) /\ SubSeq(q, 1, Len(p)) = p

\* Path.exists(); the working directory <<>> always does
exists(f, p) == p = <<>> \/ p \in DOMAIN f

is_dir(f, p) == p = <<>> \/ (p \in DOMAIN f /\ f[p].kind = "dir")

is_file(f, p) == p \in DOMAIN f /\ f[p].kind = "file"

Put(f, p, node) == [q \in DOMAIN f \cup {p} |-> IF q = p THEN node ELSE f[q]]

Ok(f) == [ok |-> TRUE, fs |-> f]
Err(f) == [ok |-> FALSE, fs |-> f]

\* Path.mkdir(): FileExistsError when the path exists, FileNotFoundError
\* when the parent is missing, NotADirectoryError when it is a file
mkdir(f, p) ==
    IF ~exists(f, p) /\ is_dir(f, parent(p)) THEN Ok(Put(f, p, DirNode))
    ELSE Err(f)

\* Path.mkdir(exist_ok=True): an existing directory is accepted
mkdir_exist_ok(f, p) ==
    IF is_dir(f, p) THEN Ok(f) ELSE mkdir(f, p)

\* Path.mkdir(parents=True): an existing path is a FileExistsError
mkdir_parents_no_exist_ok(f, p) ==
    LET prefixes == {SubSeq(p, 1, n) : n \in 1..Len(p)}
    IN  IF exists(f, p) \/ \E q \in prefixes : is_file(f, q) THEN Err(f)
        ELSE Ok([q \in DOMAIN f \cup prefixes |->
                    IF q \in DOMAIN f THEN f[q] ELSE DirNode])

\* Path.mkdir(parents=True, exist_ok=True): the missing ancestors are made
\* too; a file on the way or at the path is an error
mkdir_parents(f, p) ==
    LET prefixes == {SubSeq(p, 1, n) : n \in 1..Len(p)}
    IN  IF \E q \in prefixes : is_file(f, q) THEN Err(f)
        ELSE Ok([q \in DOMAIN f \cup prefixes |->
                    IF q \in DOMAIN f THEN f[q] ELSE DirNode])

\* Path.write_text(content): creates or replaces the file; IsADirectoryError
\* on a directory, FileNotFoundError / NotADirectoryError without a parent
\* directory
write_text(f, p, c) ==
    IF is_dir(f, parent(p)) /\ ~is_dir(f, p) THEN Ok(Put(f, p, FileNode(c)))
    ELSE Err(f)

\* shutil.rmtree(p): removes the directory and everything under it
rmtree(f, p) ==
    IF p # <<>> /\ is_dir(f, p)
    THEN Ok([q \in {x \in DOMAIN f : ~IsPrefix(p, x)} |-> f[q]])
    ELSE Err(f)

----------------------------------------------------------------------------
(* Control: exceptions, calls and the environment *)

\* What an I/O call of the environment may do: TRUE it succeeds, FALSE it
\* raises OSError
IoOutcomes == BOOLEAN

\* An exception propagates: the frames are unwound; inside main's try block
\* the except clause takes it, elsewhere it ends the process with status 1
Raise ==
    /\ stack' = <<>>
    /\ items' = <<>>
    /\ in_try' = FALSE
    /\ IF in_try
       THEN pc' = "except" /\ UNCHANGED <<status, via>>
       ELSE /\ pc' = "exit"
            /\ status' = 1
            /\ via' = CASE pc = "except" -> "except_raised"
                        [] pc = "cleanup" -> "cleanup_raised"
                        [] OTHER -> "uncaught"

\* sys.exit(1)
Exit1(branch) ==
    /\ pc' = "exit"
    /\ status' = 1
    /\ via' = branch
    /\ in_try' = FALSE

Goto(label) == pc' = label /\ UNCHANGED <<status, via, in_try>>

\* print(...): one or more prints in a row, each of which may raise
print(label) ==
    \E ok \in IoOutcomes :
        /\ injected' = (injected \/ ~ok)
        /\ IF ok THEN Goto(label) /\ UNCHANGED <<stack, items>> ELSE Raise

locals == <<project_name, entity_name, entity_name_lower, project_path>>
call == <<structure, ret, pre, writes>>

----------------------------------------------------------------------------
(* create_directory_structure *)

\* The directory branch of the loop body: path.mkdir(parents=True,
\* exist_ok=True).  Outcomes are [fs, raised, injected].
CdsDirOutcomes(f, path) ==
    LET r == mkdir_parents(f, path)
    IN  {[fs |-> r.fs, raised |-> ~r.ok, injected |-> FALSE],
         [fs |-> f, raised |-> TRUE, injected |-> TRUE]}

\* The file branch writing only content that strips to something
CdsFileOutcomes_OnlyNonEmpty(f, path, content) ==
    LET m == mkdir_parents(f, parent(path))
        w == write_text(m.fs, path, content)
    IN  IF ~m.ok
        THEN {[fs |-> f, raised |-> TRUE, injected |-> FALSE, wrote |-> FALSE]}
        ELSE IF strip(content) # <<>>
        THEN {[fs |-> w.fs, raised |-> ~w.ok, injected |-> FALSE,
               wrote |-> w.ok]}
        ELSE {[fs |-> m.fs, raised |-> FALSE, injected |-> FALSE,
               wrote |-> FALSE]}

\* The file branch: path.parent.mkdir(parents=True, exist_ok=True), then
\* write_text unless the path exists and the content strips to nothing.  A
\* write that raises may have created or truncated the file already.
\* Outcomes are [fs, raised, injected, wrote].
CdsFileOutcomes(f, path, content) ==
    LET m == mkdir_parents(f, parent(path))
        w == write_text(m.fs, path, content)
        t == write_text(m.fs, path, <<>>)
        no(g, inj) == [fs |-> g, raised |-> TRUE, injected |-> inj,
                       wrote |-> FALSE]
    IN  IF ~m.ok THEN {no(f, FALSE)}
        ELSE IF ~exists(m.fs, path) \/ strip(content) # <<>>
        THEN {[fs |-> w.fs, raised |-> ~w.ok, injected |-> FALSE,
               wrote |-> w.ok],
              no(f, TRUE), no(m.fs, TRUE), no(t.fs, TRUE)}
        ELSE {[fs |-> m.fs, raised |-> FALSE, injected |-> FALSE,
               wrote |-> FALSE],
              no(f, TRUE)}

\* for name, content in structure.items(): a directory entry
CdsDir ==
    /\ pc = "cds"
    /\ stack # <<>>
    /\ Head(stack).items # <<>>
    /\ LET frame == Head(stack)
           entry == Head(frame.items)
           path == Append(frame.base, entry.name)
       IN  /\ entry.isdir
           /\ \E o \in CdsDirOutcomes(fs, path) :
                /\ fs' = o.fs
                /\ injected' = (injected \/ o.injected)
                /\ IF o.raised THEN Raise
                   ELSE /\ stack' = <<[base |-> path, items |-> entry.children],
                                      [frame EXCEPT !.items = Tail(frame.items)]>>
                                    \o Tail(stack)
                        /\ Goto("cds")
                        /\ UNCHANGED items
    /\ UNCHANGED <<argv, fs0, locals, call>>

\* for name, content in structure.items(): a file entry
CdsFile ==
    /\ pc = "cds"
    /\ stack # <<>>
    /\ Head(stack).items # <<>>
    /\ LET frame == Head(stack)
           entry == Head(frame.items)
           path == Append(frame.base, entry.name)
       IN  /\ ~entry.isdir
           /\ \E o \in CdsFileOutcomes(fs, path, entry.content) :
                /\ fs' = o.fs
                /\ injected' = (injected \/ o.injected)
                /\ writes' = IF o.wrote THEN Append(writes, path) ELSE writes
                /\ IF o.raised THEN Raise
                   ELSE /\ stack' = <<[frame EXCEPT !.items = Tail(frame.items)]>>
                                    \o Tail(stack)
                        /\ Goto("cds")
                        /\ UNCHANGED items
    /\ UNCHANGED <<argv, fs0, locals, structure, ret, pre>>

\* The loop of one call is over: the call returns, to the enclosing call or,
\* from the outermost one, to the caller
CdsReturn ==
    /\ pc = "cds"
    /\ stack # <<>>
    /\ Head(stack).items = <<>>
    /\ stack' = Tail(stack)
    /\ Goto(IF Tail(stack) = <<>> THEN ret ELSE "cds")
    /\ UNCHANGED <<argv, fs, fs0, locals, call, items, injected>>

----------------------------------------------------------------------------
(* generate_template_files *)

\* The keyword arguments with the two names taken for each other
RenderContext_Swapped(entity, entity_lower, project) ==
    << <<"entity_name", project>>,
       <<"entity_name_lower", entity_lower>>,
       <<"project_name", entity>> >>

\* The keyword arguments both renders pass to str.format
RenderContext(entity, entity_lower, project) ==
    << <<"entity_name", entity>>,
       <<"entity_name_lower", entity_lower>>,
       <<"project_name", project>> >>

\* A template formatted and written to a path.  Outcomes are
\* [fs, raised, injected, wrote].
RenderOutcomes(f, path, template, kw) ==
    LET r == format(template, kw)
        w == write_text(f, path, r.out)
        t == write_text(f, path, <<>>)
        no(g, inj) == [fs |-> g, raised |-> TRUE, injected |-> inj,
                       wrote |-> FALSE]
    IN  IF ~r.ok THEN {no(f, FALSE)}
        ELSE {[fs |-> w.fs, raised |-> ~w.ok, injected |-> FALSE,
               wrote |-> w.ok],
              no(f, TRUE), no(t.fs, TRUE)}

templates_dir == Append(project_path, <<"templates">>)

\* entity_name_lower = entity_name.lower(); templates_dir.mkdir(exist_ok=True)
GtfEnter ==
    /\ pc = "gtf"
    /\ entity_name_lower' = lower(entity_name)
    /\ LET r == mkdir_exist_ok(fs, templates_dir)
       IN  \E ok \in IoOutcomes :
             /\ injected' = (injected \/ ~ok)
             /\ IF ok /\ r.ok
                THEN fs' = r.fs /\ items' = TEMPLATES /\ Goto("gtf_loop")
                                /\ UNCHANGED stack
                ELSE fs' = fs /\ Raise
    /\ UNCHANGED <<argv, fs0, project_name, entity_name, project_path, call>>

\* The loop body writing only the files that do not exist yet
GtfStep_KeepExisting ==
    /\ pc = "gtf_loop"
    /\ items # <<>>
    /\ LET template_name == Head(items)[1]
           template_content == Head(items)[2]
           file_path == Append(templates_dir, template_name)
           kw == RenderContext(entity_name, entity_name_lower, project_name)
           r == format(template_content, kw)
           w == write_text(fs, file_path, r.out)
       IN  /\ r.ok
           /\ IF exists(fs, file_path)
              THEN UNCHANGED <<fs, writes>>
              ELSE w.ok /\ fs' = w.fs /\ writes' = Append(writes, file_path)
           /\ items' = Tail(items)
           /\ Goto("gtf_loop")
    /\ UNCHANGED <<argv, fs0, locals, structure, ret, pre, stack, injected>>

\* for template_name, template_content in TEMPLATES.items(): one entry
GtfStep ==
    /\ pc = "gtf_loop"
    /\ items # <<>>
    /\ LET template_name == Head(items)[1]
           template_content == Head(items)[2]
           file_path == Append(templates_dir, template_name)
           kw == RenderContext(entity_name, entity_name_lower, project_name)
       IN  \E o \in RenderOutcomes(fs, file_path, template_content, kw) :
             /\ fs' = o.fs
             /\ injected' = (injected \/ o.injected)
             /\ writes' = IF o.wrote THEN Append(writes, file_path) ELSE writes
             /\ IF o.raised THEN Raise
                ELSE items' = Tail(items) /\ Goto("gtf_loop") /\ UNCHANGED stack
    /\ UNCHANGED <<argv, fs0, locals, structure, ret, pre>>

\* The loop is over: generate_template_files returns
GtfReturn ==
    /\ pc = "gtf_loop"
    /\ items = <<>>
    /\ Goto(ret)
    /\ UNCHANGED <<argv, fs, fs0, locals, call, stack, items, injected>>

----------------------------------------------------------------------------
(* main *)

\* CheckArgs with the test written as len(sys.argv) < 3
CheckArgs_AtLeast ==
    /\ pc = "main"
    /\ IF Len(argv) < 3
       THEN Goto("usage") /\ UNCHANGED <<project_name, entity_name>>
       ELSE /\ project_name' = argv[2]
            /\ entity_name' = argv[3]
            /\ Goto("announce")
    /\ UNCHANGED <<argv, fs, fs0, entity_name_lower, project_path, call,
                   stack, items, injected>>

\* if len(sys.argv) != 3 ... project_name = sys.argv[1]; entity_name =
\* sys.argv[2] (argv[1] here is the program name)
CheckArgs ==
    /\ pc = "main"
    /\ IF Len(argv) # 3
       THEN Goto("usage") /\ UNCHANGED <<project_name, entity_name>>
       ELSE /\ project_name' = argv[2]
            /\ entity_name' = argv[3]
            /\ Goto("announce")
    /\ UNCHANGED <<argv, fs, fs0, entity_name_lower, project_path, call,
                   stack, items, injected>>

\* The usage message and sys.exit(1)
Usage ==
    /\ pc = "usage"
    /\ \E ok \in IoOutcomes :
         /\ injected' = (injected \/ ~ok)
         /\ IF ok THEN Exit1("usage") /\ UNCHANGED <<stack, items>> ELSE Raise
    /\ UNCHANGED <<argv, fs, fs0, locals, call>>

\* The two prints that announce the project and the entity
Announce ==
    /\ pc = "announce"
    /\ print("check_exists")
    /\ UNCHANGED <<argv, fs, fs0, locals, call>>

\* The existence test raising FileExistsError inside the try block
CheckExists_RaiseInTry ==
    /\ pc = "check_exists"
    /\ project_path' = Path(project_name)
    /\ IF exists(fs, Path(project_name)) THEN Goto("except") ELSE Goto("mkroot")
    /\ UNCHANGED <<argv, fs, fs0, project_name, entity_name,
                   entity_name_lower, call, stack, items, injected>>

\* project_path = Path(project_name); if project_path.exists(): print and
\* sys.exit(1)
CheckExists ==
    /\ pc = "check_exists"
    /\ project_path' = Path(project_name)
    /\ IF exists(fs, Path(project_name))
       THEN \E ok \in IoOutcomes :
              /\ injected' = (injected \/ ~ok)
              /\ IF ok THEN Exit1("exists") /\ UNCHANGED <<stack, items>>
                 ELSE Raise
       ELSE Goto("mkroot") /\ UNCHANGED <<stack, items, injected>>
    /\ UNCHANGED <<argv, fs, fs0, project_name, entity_name,
                   entity_name_lower, call>>

\* project_path.mkdir(), outside the try block; the try block is entered
MakeRoot ==
    /\ pc = "mkroot"
    /\ LET r == mkdir(fs, project_path)
       IN  \E ok \in IoOutcomes :
             /\ injected' = (injected \/ ~ok)
             /\ IF ok /\ r.ok
                THEN /\ fs' = r.fs
                     /\ pc' = "structure"
                     /\ in_try' = TRUE
                     /\ UNCHANGED <<status, via, stack, items>>
                ELSE fs' = fs /\ Raise
    /\ UNCHANGED <<argv, fs0, locals, call>>

\* The call of create_directory_structure left out
CallStructure_Skipped ==
    /\ pc = "structure"
    /\ Goto("templates")
    /\ UNCHANGED <<argv, fs, fs0, locals, call, stack, items, injected>>

\* print; create_directory_structure(project_path, PROJECT_STRUCTURE)
CallStructure ==
    /\ pc = "structure"
    /\ \E ok \in IoOutcomes :
         /\ injected' = (injected \/ ~ok)
         /\ IF ok
            THEN /\ structure' = PROJECT_STRUCTURE
                 /\ stack' = <<[base |-> project_path,
                                items |-> PROJECT_STRUCTURE]>>
                 /\ ret' = "templates"
                 /\ pre' = fs
                 /\ writes' = <<>>
                 /\ Goto("cds")
                 /\ UNCHANGED items
            ELSE Raise /\ UNCHANGED call
    /\ UNCHANGED <<argv, fs, fs0, locals>>

\* print; generate_template_files(project_path, entity_name, project_name)
CallTemplates ==
    /\ pc = "templates"
    /\ \E ok \in IoOutcomes :
         /\ injected' = (injected \/ ~ok)
         /\ IF ok
            THEN /\ ret' = "rootfiles"
                 /\ pre' = fs
                 /\ writes' = <<>>
                 /\ Goto("gtf")
                 /\ UNCHANGED <<stack, items>>
            ELSE Raise /\ UNCHANGED <<ret, pre, writes>>
    /\ UNCHANGED <<argv, fs, fs0, locals, structure>>

\* print; for file_name in ["pyproject.toml", "README.md"]:
RootFiles ==
    /\ pc = "rootfiles"
    /\ \E ok \in IoOutcomes :
         /\ injected' = (injected \/ ~ok)
         /\ IF ok
            THEN /\ items' = << <<"pyproject.toml">>, <<"README.md">> >>
                 /\ Goto("root_loop")
                 /\ UNCHANGED stack
            ELSE Raise
    /\ UNCHANGED <<argv, fs, fs0, locals, call>>

\* The body of the loop: TEMPLATES[file_name].format(...) written to
\* project_path / file_name
RootStep ==
    /\ pc = "root_loop"
    /\ items # <<>>
    /\ LET file_name == Head(items)
           file_path == Append(project_path, file_name)
           kw == RenderContext(entity_name, lower(entity_name), project_name)
       IN  \E o \in RenderOutcomes(fs, file_path, Template(file_name), kw) :
             /\ fs' = o.fs
             /\ injected' = (injected \/ o.injected)
             /\ writes' = IF o.wrote THEN Append(writes, file_path) ELSE writes
             /\ IF o.raised THEN Raise
                ELSE items' = Tail(items) /\ Goto("root_loop") /\ UNCHANGED stack
    /\ UNCHANGED <<argv, fs0, locals, structure, ret, pre>>

\* The loop is over
RootDone ==
    /\ pc = "root_loop"
    /\ items = <<>>
    /\ Goto("report")
    /\ UNCHANGED <<argv, fs, fs0, locals, call, stack, items, injected>>

\* The closing prints; main returns and the process ends with status 0
Report ==
    /\ pc = "report"
    /\ \E ok \in IoOutcomes :
         /\ injected' = (injected \/ ~ok)
         /\ IF ok
            THEN /\ pc' = "exit"
                 /\ status' = 0
                 /\ via' = "success"
                 /\ in_try' = FALSE
                 /\ UNCHANGED <<stack, items>>
            ELSE Raise
    /\ UNCHANGED <<argv, fs, fs0, locals, call>>

\* except Exception as e: print(...)
Except ==
    /\ pc = "except"
    /\ print("cleanup")
    /\ UNCHANGED <<argv, fs, fs0, locals, call>>

\* Cleanup without the removal
Cleanup_NoRemove ==
    /\ pc = "cleanup"
    /\ Exit1("cleanup")
    /\ UNCHANGED <<argv, fs, fs0, locals, call, stack, items, injected>>

\* if project_path.exists(): shutil.rmtree(project_path); sys.exit(1)
Cleanup ==
    /\ pc = "cleanup"
    /\ IF exists(fs, project_path)
       THEN LET r == rmtree(fs, project_path)
            IN  \E ok \in IoOutcomes :
                  /\ injected' = (injected \/ ~ok)
                  /\ IF ok /\ r.ok
                     THEN fs' = r.fs /\ Exit1("cleanup")
                                     /\ UNCHANGED <<stack, items>>
                     ELSE fs' = fs /\ Raise
       ELSE Exit1("cleanup") /\ UNCHANGED <<fs, stack, items, injected>>
    /\ UNCHANGED <<argv, fs0, locals, call>>

----------------------------------------------------------------------------
(* Runs of the program *)

MaxArgs == 3

Program == <<"project_template.py">>

\* The words a command line is made of
ArgWords ==
    { <<"shop">>, <<"nodir", "/", "shop">>, <<"Order">>, <<"T", "{", "k", "}">> }

RECURSIVE Words(_)
Words(n) ==
    IF n = 0 THEN {<<>>}
    ELSE LET shorter == Words(n - 1)
         IN  shorter \cup {Append(a, w) : a \in shorter, w \in ArgWords}

TreeOf(nodes) ==
    [p \in {n[1] : n \in nodes} |->
        (CHOOSE n \in nodes : n[1] = p)[2]]

Old == <<"old">>

\* What the working directory may hold when the program starts
InitialTrees ==
    LET other == << << <<"other.txt">> >>, FileNode(Old) >>
    IN  { TreeOf({other}),
          TreeOf({other,
                  << << <<"shop">> >>, DirNode >>,
                  << << <<"shop">>, <<"keep.txt">> >>, FileNode(Old) >>}),
          TreeOf({other, << << <<"shop">> >>, FileNode(Old) >>}),
          TreeOf({other, << << <<"nodir">> >>, DirNode >>}) }

Init ==
    /\ argv \in {<<Program>> \o a : a \in Words(MaxArgs)}
    /\ fs \in InitialTrees
    /\ fs0 = fs
    /\ pc = "main"
    /\ status = 0
    /\ via = ""
    /\ in_try = FALSE
    /\ project_name = <<>>
    /\ entity_name = <<>>
    /\ entity_name_lower = <<>>
    /\ project_path = <<>>
    /\ structure = <<>>
    /\ stack = <<>>
    /\ items = <<>>
    /\ ret = ""
    /\ pre = fs
    /\ writes = <<>>
    /\ injected = FALSE

Next ==
    \/ CheckArgs
    \/ Usage
    \/ Announce
    \/ CheckExists
    \/ MakeRoot
    \/ CallStructure
    \/ CdsDir
    \/ CdsFile
    \/ CdsReturn
    \/ CallTemplates
    \/ GtfEnter
    \/ GtfStep
    \/ GtfReturn
    \/ RootFiles
    \/ RootStep
    \/ RootDone
    \/ Report
    \/ Except
    \/ Cleanup

Spec == Init /\ [][Next]_vars

----------------------------------------------------------------------------
(* The two functions called on their own, as a script importing the       *)
(* module would call them, on directories that already hold something.     *)
(* The script is run again after it returned or was ended by an exception. *)

MaxContentLen == 2

Target == << <<"t">> >>

RECURSIVE Contents(_)
Contents(n) ==
    IF n = 0 THEN {<<>>}
    ELSE LET shorter == Contents(n - 1)
         IN  shorter \cup {Append(c, x) : c \in shorter, x \in {" ", "x"}}

\* The structures passed: {"d": {"f": c1}, "g": c2}
Structures ==
    { << Dir("d", <<File("f", c1)>>), File("g", c2) >> :
        c1 \in {<<>>, <<"x">>}, c2 \in Contents(MaxContentLen) }

MatTrees ==
    LET t == << Target, DirNode >>
        at(name, node) == << Append(Target, <<name>>), node >>
    IN  { TreeOf({}),
          TreeOf({t}),
          TreeOf({t, at("d", FileNode(Old))}),
          TreeOf({t, at("g", DirNode)}),
          TreeOf({t, at("g", FileNode(Old)), at("d", DirNode),
                  << Target \o << <<"d">>, <<"f">> >>, FileNode(Old) >>}) }

Idle(trees) ==
    /\ argv = <<>>
    /\ fs \in trees
    /\ fs0 = fs
    /\ pc = "idle"
    /\ status = 0
    /\ via = ""
    /\ in_try = FALSE
    /\ project_name = <<>>
    /\ entity_name = <<>>
    /\ entity_name_lower = <<>>
    /\ project_path = Target
    /\ structure = <<>>
    /\ stack = <<>>
    /\ items = <<>>
    /\ ret = ""
    /\ pre = fs
    /\ writes = <<>>
    /\ injected = FALSE

\* A new process starts
Start(label) ==
    /\ pc' = label
    /\ status' = 0
    /\ via' = ""
    /\ in_try' = FALSE

\* create_directory_structure(Target, s), the first call or one more
CallMaterializer ==
    /\ pc \in {"idle", "returned", "exit"}
    /\ \E s \in Structures :
         /\ structure' = s
         /\ stack' = <<[base |-> project_path, items |-> s]>>
    /\ ret' = "returned"
    /\ pre' = fs
    /\ writes' = <<>>
    /\ injected' = FALSE
    /\ Start("cds")
    /\ UNCHANGED <<argv, fs, fs0, locals, items>>

MatInit == Idle(MatTrees)

MatNext == CallMaterializer \/ CdsDir \/ CdsFile \/ CdsReturn

MatSpec == MatInit /\ [][MatNext]_vars

GenTrees ==
    LET t == << Target, DirNode >>
        at(name, node) == << Append(Target, <<name>>), node >>
        in(name, node) == << Target \o << <<"templates">>, <<name>> >>, node >>
    IN  { TreeOf({}),
          TreeOf({t}),
          TreeOf({t, at("templates", FileNode(Old))}),
          TreeOf({t, at("pyproject.toml", FileNode(Old)),
                  at("templates", DirNode),
                  in("entity_template.py", FileNode(Old)),
                  in("notes.txt", FileNode(Old))}),
          TreeOf({t, at("templates", DirNode), in("README.md", DirNode)}) }

\* generate_template_files(Target, e, p), the first call or one more
CallRenderer ==
    /\ pc \in {"idle", "returned", "exit"}
    /\ \E e \in {<<"Order">>, <<"T", "{", "k", "}">>}, p \in {<<"shop">>, <<"{", "p", "}">>} :
         /\ entity_name' = e
         /\ project_name' = p
    /\ entity_name_lower' = <<>>
    /\ ret' = "returned"
    /\ pre' = fs
    /\ writes' = <<>>
    /\ injected' = FALSE
    /\ Start("gtf")
    /\ UNCHANGED <<argv, fs, fs0, project_path, structure, stack, items>>

GenInit == Idle(GenTrees)

GenNext == CallRenderer \/ GtfEnter \/ GtfStep \/ GtfReturn

GenSpec == GenInit /\ [][GenNext]_vars

----------------------------------------------------------------------------
(* What the claims speak of *)

\* Every entry of a structure laid out under base, as [path, isdir, content]
RECURSIVE Entries(_, _)
Entries(base, its) ==
    IF its = <<>> THEN {}
    ELSE LET e == Head(its)
             p == Append(base, e.name)
         IN  {[path |-> p, isdir |-> e.isdir, content |-> e.content]}
             \cup (IF e.isdir THEN Entries(p, e.children) ELSE {})
             \cup Entries(base, Tail(its))

\* The paths below root
Under(f, root) == {p \in DOMAIN f : IsPrefix(root, p) /\ p # root}

HasKind(f, p, isdir) == IF isdir THEN is_dir(f, p) ELSE is_file(f, p)

Succeeded == pc = "exit" /\ status = 0

StructurePaths(root) == {e.path : e \in Entries(root, PROJECT_STRUCTURE)}

TemplatesDir(root) == Append(root, <<"templates">>)

RootFilePaths(root) ==
    {Append(root, <<"pyproject.toml">>), Append(root, <<"README.md">>)}

----------------------------------------------------------------------------
(* C1 *)

C1_ClaimedPaths(root) ==
    StructurePaths(root)
    \cup {TemplatesDir(root),
          Append(TemplatesDir(root), <<"entity_template.py">>),
          Append(TemplatesDir(root), <<"repository_interface_template.py">>)}
    \cup RootFilePaths(root)

\* C1 as stated: after a successful run the paths under the project root are
\* exactly those of PROJECT_STRUCTURE, templates/entity_template.py,
\* templates/repository_interface_template.py, pyproject.toml and README.md.
C1_TreeAsClaimed ==
    Succeeded => Under(fs, project_path) = C1_ClaimedPaths(project_path)

\* C1 amended: after a successful run for a project name not present before,
\* the paths under the project root are exactly those of PROJECT_STRUCTURE,
\* templates/<name> for every one of the four names of TEMPLATES (so also
\* templates/pyproject.toml and templates/README.md), and pyproject.toml and
\* README.md at the root; directories are directories and files are files.
C1_TreeIsStructureTemplatesRootFiles ==
    Succeeded =>
        /\ ~exists(fs0, project_path)
        /\ is_dir(fs, project_path)
        /\ Under(fs, project_path) =
               StructurePaths(project_path)
               \cup {TemplatesDir(project_path)}
               \cup {Append(TemplatesDir(project_path), n) : n \in TemplateNames}
               \cup RootFilePaths(project_path)
        /\ \A e \in Entries(project_path, PROJECT_STRUCTURE) :
               HasKind(fs, e.path, e.isdir)
        /\ is_dir(fs, TemplatesDir(project_path))
        /\ \A n \in TemplateNames :
               is_file(fs, Append(TemplatesDir(project_path), n))
        /\ \A p \in RootFilePaths(project_path) : is_file(fs, p)

C1_Witness ==
    /\ Succeeded
    /\ project_path = << <<"shop">> >>
    /\ Cardinality(Under(fs, project_path)) = Cardinality(StructurePaths(project_path)) + 7

----------------------------------------------------------------------------
(* C2 *)

\* The except clause was entered: a step inside the try block failed
HandlerEntered == via \in {"cleanup", "cleanup_raised", "except_raised"}

----------------------------------------------------------------------------
(* C3 *)

ValidationFails == Len(argv) # 3 \/ exists(fs0, Path(argv[2]))

\* C3: a run that fails validation (the number of command-line arguments is
\* not two, or the path named by the project name exists) never changes the
\* filesystem and ends with status 1.
C3_ValidationFailureHasNoEffect ==
    ValidationFails =>
        /\ fs = fs0
        /\ writes = <<>>
        /\ pc \in {"main", "usage", "announce", "check_exists", "exit"}
        /\ pc = "exit" => status = 1

C3_Witness ==
    /\ pc = "exit"
    /\ via = "exists"
    /\ Len(argv) = 3
    /\ is_dir(fs0, Path(argv[2]))

----------------------------------------------------------------------------
(* C4 *)

Returned == pc = "returned"

FileEntries == {e \in Entries(project_path, structure) : ~e.isdir}

Wrote(p) == \E i \in DOMAIN writes : writes[i] = p

NonBlank(c) == \E i \in DOMAIN c : c[i] \notin Whitespace

\* C4 as stated: create_directory_structure writes a file entry's content if
\* and only if the target does not exist yet or the content is non-empty,
\* whitespace-only content included; an existing target is left as it is
\* when the content is empty.
C4_WriteRuleNonEmpty ==
    Returned =>
        \A e \in {x \in FileEntries : ~is_dir(pre, x.path)} :
            /\ Wrote(e.path) <=> (~exists(pre, e.path) \/ e.content # <<>>)
            /\ (exists(pre, e.path) /\ e.content = <<>>) =>
                   fs[e.path] = pre[e.path]

\* C4 amended: create_directory_structure writes a file entry's content if
\* and only if the target does not exist yet or the content holds a
\* character that is not whitespace (content.strip() is non-empty); when the
\* target exists and the content is empty or only whitespace, the existing
\* node is left as it is.
C4_WriteRuleNonBlank ==
    Returned =>
        \A e \in FileEntries :
            /\ Wrote(e.path) <=> (~exists(pre, e.path) \/ NonBlank(e.content))
            /\ Wrote(e.path) => fs[e.path] = FileNode(e.content)
            /\ (exists(pre, e.path) /\ ~NonBlank(e.content)) =>
                   fs[e.path] = pre[e.path]

C4_Witness ==
    /\ Returned
    /\ \E e \in FileEntries :
         /\ is_file(pre, e.path)
         /\ e.content # <<>>
         /\ ~NonBlank(e.content)
         /\ pre[e.path].content # e.content
         /\ ~Wrote(e.path)
    /\ \E e \in FileEntries :
         /\ is_file(pre, e.path)
         /\ NonBlank(e.content)
         /\ pre[e.path].content # e.content
         /\ Wrote(e.path)

----------------------------------------------------------------------------
(* C5 *)

\* What the root holds is part of the structure, with the same content
PartOfStructure(f) ==
    /\ ~is_file(f, project_path)
    /\ \A p \in Under(f, project_path) :
         \E e \in Entries(project_path, structure) :
            /\ e.path = p
            /\ HasKind(f, p, e.isdir)
            /\ ~e.isdir => f[p].content = e.content

\* C5: create_directory_structure run on a root that already holds part of
\* the structure with the same content does not raise, ends in the tree a
\* run on an empty root ends in, and leaves every file that was non-empty
\* non-empty and present.
C5_MaterializerIdempotent ==
    PartOfStructure(pre) =>
        /\ (pc = "exit" /\ structure # <<>>) => injected
        /\ Returned =>
             /\ Under(fs, project_path) =
                    {e.path : e \in Entries(project_path, structure)}
             /\ \A e \in Entries(project_path, structure) :
                    /\ HasKind(fs, e.path, e.isdir)
                    /\ ~e.isdir => fs[e.path].content = e.content
             /\ \A p \in Under(pre, project_path) :
                    (is_file(pre, p) /\ pre[p].content # <<>>) =>
                        (is_file(fs, p) /\ fs[p].content # <<>>)

C5_Witness ==
    /\ Returned
    /\ PartOfStructure(pre)
    /\ \E p \in Under(pre, project_path) :
          is_file(pre, p) /\ pre[p].content # <<>>
    /\ Under(pre, project_path) # Under(fs, project_path)
    /\ writes # <<>>

----------------------------------------------------------------------------
(* C6 *)

Occ(t, x) == Cardinality({i \in DOMAIN t : t[i] = x})

Placeholders == {"project_name", "entity_name", "entity_name_lower"}

\* The positions of a template where a placeholder {name} starts
FieldStarts(t, name) ==
    {i \in DOMAIN t : /\ t[i] = "{"
                      /\ i + 2 <= Len(t)
                      /\ t[i + 1] = name
                      /\ t[i + 2] = "}"}

NFields(t, name) == Cardinality(FieldStarts(t, name))

AllFields(t) ==
    NFields(t, "project_name") + NFields(t, "entity_name")
    + NFields(t, "entity_name_lower")

\* The braces of a template that no placeholder accounts for come in pairs
\* {{ and }}, each of which stands for one literal brace
Literal(t, brace) == (Occ(t, brace) - AllFields(t)) \div 2

\* The braces a rendering of t holds when p, e and l are substituted
BracesRendered(t, brace, p, e, l) ==
    Literal(t, brace)
    + NFields(t, "project_name") * Occ(p, brace)
    + NFields(t, "entity_name") * Occ(e, brace)
    + NFields(t, "entity_name_lower") * Occ(l, brace)

\* The files the two renders write: <<path, template name>>
RenderedFiles(root) ==
    {<<Append(TemplatesDir(root), n), n>> : n \in TemplateNames}
    \cup {<<Append(root, n), n>> : n \in {<<"pyproject.toml">>, <<"README.md">>}}

BraceFree(t) == Occ(t, "{") = 0 /\ Occ(t, "}") = 0

\* C6 as stated: no brace-delimited token remains in any rendered output
\* file (taken here for arguments that hold no brace themselves).
C6_NoBraceRemains ==
    (Succeeded /\ BraceFree(argv[2]) /\ BraceFree(argv[3])) =>
        \A r \in RenderedFiles(project_path) : BraceFree(fs[r[1]].content)

\* C6 amended: rendering replaces every placeholder {project_name},
\* {entity_name} and {entity_name_lower} of every template by the value
\* supplied, so that no placeholder remains in a rendered file; each escaped
\* pair {{ or }} of a template (the authors entry of pyproject.toml) comes
\* out as one literal brace, and a brace inside an argument is copied as it
\* is.  These are all the braces of a rendered file.
C6_OnlyPlaceholdersReplaced ==
    Succeeded =>
        \A r \in RenderedFiles(project_path) :
            LET out == fs[r[1]].content
                t == Template(r[2])
            IN  /\ \A b \in {"{", "}"} :
                      Occ(out, b) = BracesRendered(t, b, argv[2], argv[3],
                                                   lower(argv[3]))
                /\ (BraceFree(argv[2]) /\ BraceFree(argv[3])) =>
                      \A n \in Placeholders : Occ(out, n) = 0
                /\ Len(out) = Len(t) - 3 * AllFields(t)
                              - Literal(t, "{") - Literal(t, "}")
                              + NFields(t, "project_name") * Len(argv[2])
                              + NFields(t, "entity_name") * Len(argv[3])
                              + NFields(t, "entity_name_lower") * Len(argv[3])

C6_Witness ==
    /\ Succeeded
    /\ ~BraceFree(argv[3])
    /\ Occ(fs[Append(project_path, <<"pyproject.toml">>)].content, "{") = 1
    /\ Occ(fs[Append(TemplatesDir(project_path), <<"entity_template.py">>)].content, "{") = 2

----------------------------------------------------------------------------
(* C7 *)

\* A template with the three values of the command line substituted
Substituted(name) ==
    format(Template(name),
           << <<"project_name", argv[2]>>,
              <<"entity_name", argv[3]>>,
              <<"entity_name_lower", lower(argv[3])>> >>).out

HasSub(t, sub) ==
    \E i \in 1..(Len(t) + 1 - Len(sub)) : SubSeq(t, i, i + Len(sub) - 1) = sub

\* C7: in a successful run every rendered file is its template with
\* {project_name}, {entity_name} and {entity_name_lower} replaced by the
\* project name, the entity name and the lower-cased entity name of the
\* command line, the same in both renders; for ("shop", "Order") the entity
\* template defines Order, the repository template OrderRepository and
\* pyproject.toml holds name = "shop".
C7_OneRenderContext ==
    Succeeded =>
        /\ \A r \in RenderedFiles(project_path) :
              fs[r[1]] = FileNode(Substituted(r[2]))
        /\ (argv[2] = <<"shop">> /\ argv[3] = <<"Order">>) =>
              /\ HasSub(fs[Append(TemplatesDir(project_path),
                                  <<"entity_template.py">>)].content,
                        <<"class", " ", "Order", ":">>)
              /\ HasSub(fs[Append(TemplatesDir(project_path),
                                  <<"repository_interface_template.py">>)].content,
                        <<"class", " ", "Order", "Repository", "(ABC):">>)
              /\ HasSub(fs[Append(TemplatesDir(project_path),
                                  <<"repository_interface_template.py">>)].content,
                        <<"from .", "order", " ", "import", " ", "Order">>)
              /\ HasSub(fs[Append(project_path, <<"pyproject.toml">>)].content,
                        <<"name = \"", "shop", "\"">>)

C7_Witness ==
    /\ Succeeded
    /\ argv = <<Program, <<"shop">>, <<"Order">>>>
    /\ is_file(fs, Append(project_path, <<"README.md">>))

----------------------------------------------------------------------------
(* C8 *)

CatalogPaths == [i \in DOMAIN TEMPLATES |-> Append(templates_dir, TEMPLATES[i][1])]

\* C8: generate_template_files writes exactly one file per entry of
\* TEMPLATES, at templates/<template_name> under the target directory,
\* replacing whatever file was at that path; it writes nothing directly
\* under the target directory, where pyproject.toml and README.md are
\* written by main's second render.
C8_OneFilePerCatalogEntry ==
    Returned =>
        /\ writes = CatalogPaths
        /\ \A i \in DOMAIN TEMPLATES :
              fs[CatalogPaths[i]] =
                  FileNode(format(TEMPLATES[i][2],
                                  << <<"project_name", project_name>>,
                                     <<"entity_name", entity_name>>,
                                     <<"entity_name_lower", lower(entity_name)>> >>).out)
        /\ DOMAIN fs = DOMAIN pre \cup {templates_dir}
                       \cup {CatalogPaths[i] : i \in DOMAIN TEMPLATES}
        /\ \A q \in DOMAIN pre :
              (\A i \in DOMAIN TEMPLATES : q # CatalogPaths[i]) => fs[q] = pre[q]

C8_Witness ==
    /\ Returned
    /\ is_file(pre, Append(templates_dir, <<"entity_template.py">>))
    /\ pre[Append(templates_dir, <<"entity_template.py">>)].content = Old
    /\ is_file(fs, Append(project_path, <<"pyproject.toml">>))
    /\ fs[Append(project_path, <<"pyproject.toml">>)].content = Old
    /\ ~exists(pre, Append(templates_dir, <<"pyproject.toml">>))

----------------------------------------------------------------------------
(* C9 *)

StructureComplete ==
    \A e \in Entries(project_path, PROJECT_STRUCTURE) :
        /\ HasKind(fs, e.path, e.isdir)
        /\ ~e.isdir => fs[e.path].content = e.content

TemplatesComplete ==
    \A n \in TemplateNames :
        /\ is_file(fs, Append(TemplatesDir(project_path), n))
        /\ fs[Append(TemplatesDir(project_path), n)].content # <<>>

\* The order of the steps, seen in what exists
StepsInOrder ==
    /\ \A p \in DOMAIN fs \ DOMAIN fs0 :
          /\ IsPrefix(project_path, p)
          /\ is_dir(fs, project_path)
          /\ ~exists(fs0, project_path)
    /\ (project_path # <<>> /\ exists(fs, TemplatesDir(project_path))) =>
          StructureComplete
    /\ (project_path # <<>>
          /\ \E p \in RootFilePaths(project_path) : exists(fs, p)) =>
          (StructureComplete /\ TemplatesComplete)
    /\ pc \in {"templates", "gtf", "gtf_loop"} => StructureComplete
    /\ pc \in {"rootfiles", "root_loop", "report"} =>
          (StructureComplete /\ TemplatesComplete)
    /\ Succeeded =>
          /\ ~injected
          /\ StructureComplete
          /\ TemplatesComplete
          /\ \A p \in RootFilePaths(project_path) :
                is_file(fs, p) /\ fs[p].content # <<>>

\* C9 as stated: the steps run in one linear order, and a run ends with
\* status 0 after every step, or with status 1 through a validation failure
\* or through the cleanup branch, and in no other way (taken here for the
\* runs in which the environment makes no I/O call fail).
C9_LinearOrderTwoFailureExits ==
    /\ StepsInOrder
    /\ (pc = "exit" /\ ~injected) =>
          \/ status = 0 /\ via = "success"
          \/ status = 1 /\ via \in {"usage", "exists", "cleanup",
                                    "cleanup_raised", "except_raised"}

\* C9 amended: the steps run in one linear order, and a run ends with status
\* 0 after every step, or with status 1 through a validation failure,
\* through the cleanup branch, or through an exception that no clause
\* catches: one raised outside the try block (by project_path.mkdir() when
\* the parent directory is missing, or by a print) or inside the except
\* clause itself.
C9_LinearOrderThreeFailureExits ==
    /\ StepsInOrder
    /\ pc = "exit" =>
          \/ status = 0 /\ via = "success"
          \/ status = 1 /\ via \in {"usage", "exists", "cleanup",
                                    "cleanup_raised", "except_raised",
                                    "uncaught"}
    /\ (pc = "exit" /\ via = "uncaught") => (fs = fs0 /\ Len(writes) = 0)

C9_Witness ==
    /\ pc = "root_loop"
    /\ items = << <<"README.md">> >>
    /\ is_file(fs, Append(project_path, <<"pyproject.toml">>))
    /\ ~exists(fs, Append(project_path, <<"README.md">>))

C9_WitnessUncaught ==
    /\ pc = "exit"
    /\ via = "uncaught"
    /\ ~injected

----------------------------------------------------------------------------
(* C10 *)

\* C10: a run never destroys what it did not create: every node that
\* existed before the run exists unchanged in every state of the run, and
\* the except clause, with its recursive removal, is reached only for a
\* root that did not exist before the run and that this run created.
C10_OnlyOwnRootRemoved ==
    /\ \A p \in DOMAIN fs0 : p \in DOMAIN fs /\ fs[p] = fs0[p]
    /\ (pc \in {"except", "cleanup"} \/ HandlerEntered) =>
          /\ project_path # <<>>
          /\ ~exists(fs0, project_path)
          /\ \A p \in DOMAIN fs0 : ~IsPrefix(project_path, p)

C10_Witness ==
    /\ pc = "exit"
    /\ via = "cleanup"
    /\ project_path = << <<"nodir">>, <<"shop">> >>
    /\ is_dir(fs, << <<"nodir">> >>)
    /\ ~exists(fs, project_path)
    /\ writes # <<>>

====
